---- MODULE Spec2Model ----
(***************************************************************************)
(* The payment-settlement worker of rwa-payment: the fetch handler of      *)
(* src/src/index.ts (direct mode, lines 24-161; oracle mode, lines         *)
(* 185-314) and of src/unnamed/part_000 (oracle mode).                     *)
(*                                                                         *)
(* Every request is a process that runs the handler from one await to the  *)
(* next; the KV namespace (ledger) and the chain (pair contract, oracle    *)
(* feed, accepted transfers) are shared.  Amounts are integers in the      *)
(* token's smallest unit; TLC's integers are 32 bits wide, so one whole    *)
(* token is EtherUnit smallest units here where the source has 10^18.      *)
(***************************************************************************)
EXTENDS Integers, Sequences, FiniteSets, TLC

MaxReqs == 2
EtherUnit == 10

\* the oracle answer's scale (100000000n) and the offset multiplier's (10000n)
RateScale == 100000000
OffsetScale == 10000

Reqs == 1..MaxReqs
Orders == {"o1", "o2"}

API_KEY == "secret"
Keys == {"", "wrong", API_KEY}
Routes == {"GET /status", "POST /pay", "GET /"}

\* chain addresses, one character per element, so that casing is visible: the
\* settlement token's address in each casing of its hex digits, and the addresses
\* of other tokens
AlxCasings == { <<"0", "x", a, b>> : a \in {"a", "A"}, b \in {"b", "B"} }
OtherTokens == {<<"0", "x", "C", "d">>, <<"0", "x", "a", "C">>}
Token0Values == {<<"0", "x", "A", "b">>, <<"0", "x", "a", "B">>, <<"0", "x", "C", "d">>}
ReserveValues == {0, 1, 2, 3}
AnswerValues == {-14000000, 0, 14000000, 33333333}

\* offset as the body carries it: absent, not a number, or a decimal with two
\* places held in hundredths of a percent ("+10.00" is centi = 1000)
OffsetUndefined == [kind |-> "undefined", centi |-> 0]
OffsetNaN == [kind |-> "nan", centi |-> 0]
OffsetNum(k) == [kind |-> "num", centi |-> k]
OffsetCentis == {-15000, -10000, -9000, 0, 1000}

\* the ledger's value for a key that was never put (KV get returns null)
NoRecord == [status |-> "absent", tx_hash |-> 0, alx_sent |-> <<0, 0>>,
             rwa_value |-> 0, timestamp |-> 0]

NoBody == [json |-> FALSE, address |-> "", rwa_amount |-> 0,
           offset |-> OffsetUndefined, order |-> ""]
NoResp == [status |-> 0, msg |-> "", data |-> NoRecord]

Body(a, v, off, o) == [json |-> TRUE, address |-> a, rwa_amount |-> v, offset |-> off, order |-> o]

\* bodies sent by a single client exploring the pricing pipeline
PricingBodies ==
    { Body("0xdest", v, OffsetNum(k), "o1") : v \in {1, 100}, k \in OffsetCentis }
    \cup { Body("0xdest", 100, OffsetNaN, "o1"),
           Body("0xdest", 100, OffsetUndefined, "o1"),
           Body("", 100, OffsetNum(0), "o1"),
           Body("0xdest", 0, OffsetNum(0), "o1"),
           Body("0xdest", 100, OffsetNum(0), ""),
           Body("0xdest", 700, OffsetNum(0), "o1"),
           NoBody }

\* the body sent by the client that tries every casing of the addresses
CasingBodies == { Body("0xdest", 100, OffsetNum(0), "o1") }

\* bodies sent by concurrent clients
TrafficBodies ==
    { Body("0xdest", 100, OffsetNum(0), o) : o \in Orders }
    \cup { Body("", 100, OffsetNum(0), "o1") }

VARIABLES env, pair, feed, ledger, chain, req

vars == <<env, pair, feed, ledger, chain, req>>

\* env.ALX_CONTRACT_ADDRESS
ALX_CONTRACT_ADDRESS == env.alx

\* ------------------------------------------------------------------------
\* Pure parts of the handler

\* String.prototype.toLowerCase on the characters an address can hold
LowerChar(c) ==
    CASE c = "A" -> "a" [] c = "B" -> "b" [] c = "C" -> "c"
      [] c = "D" -> "d" [] c = "E" -> "e" [] c = "F" -> "f" [] c = "X" -> "x"
      [] OTHER -> c

toLowerCase(s) == [i \in DOMAIN s |-> LowerChar(s[i])]

Abs(x) == IF x < 0 THEN -x ELSE x

\* <<q, r>> with a * b = q * d + r and 0 <= r < d, for a, b >= 0 and d > 0,
\* by halving a, so that no intermediate value exceeds 3 * d or the quotient
\* one halving step; x is bound to the value of h, so that h is evaluated once
MulDivStep(h, add, d) ==
    CHOOSE y \in { <<2 * x[1] + (add \div d) + ((2 * x[2] + (add % d)) \div d),
                     (2 * x[2] + (add % d)) % d>> : x \in {h} } : TRUE

RECURSIVE MulDivMod(_, _, _)
MulDivMod(a, b, d) ==
    IF a = 0 THEN <<0, 0>>
    ELSE MulDivStep(MulDivMod(a \div 2, b, d), IF a % 2 = 1 THEN b ELSE 0, d)

\* the BigInt expression (a * b) / d for x = <<a, b, d>>: the product is exact
\* and the division truncates toward zero; d > 0
MulDivOf(x) ==
    LET q == MulDivMod(Abs(x[1]), Abs(x[2]), x[3])[1]
    IN  IF (x[1] < 0) # (x[2] < 0) THEN -q ELSE q

\* x is bound to the values of the operands, so that each is evaluated once
MulDiv(a, b, d) == CHOOSE y \in { MulDivOf(x) : x \in {<<a, b, d>>} } : TRUE

\* parseEther(rwa_amount.toString()) for a whole number of tokens
parseEther(x) == x * EtherUnit

\* formatUnits(amount, 18) of a non-negative amount: the decimal string, held as
\* its whole part and its fractional digits
formatUnits(x) == <<x \div EtherUnit, x % EtherUnit>>

\* offsets (in hundredths of a percent) at which the double
\* (1 + offsetPercent / 100) * 10000 falls just below the integer 10000 + centi,
\* so that Math.floor loses one: e.g. (1 + -90 / 100) * 10000 = 999.9999999999998
FloatLossy == {-9000, 9, 10, 29, 30}

\* Math.floor((1 + Number(offset) / 100) * 10000) for a numeric offset
Multiplier(off) == OffsetScale + off.centi - (IF off.centi \in FloatLossy THEN 1 ELSE 0)

\* the classification comparing against the configured address as written
ClassifyConfigAsWritten(reserves, token0, alx) ==
    IF toLowerCase(token0) = alx
    THEN <<reserves[1], reserves[2]>>
    ELSE <<reserves[2], reserves[1]>>

\* which reserve is the settlement token's: <<alxReserve, usdtReserve>>
Classify(reserves, token0, alx) ==
    IF toLowerCase(token0) = toLowerCase(alx)
    THEN <<reserves[1], reserves[2]>>
    ELSE <<reserves[2], reserves[1]>>

\* the empty-pool check with the comparison turned the wrong way
EmptyPoolWrongSign(alxReserve) == alxReserve < 0

\* if (alxReserve === 0n) throw new Error('Liquidity pool is empty')
EmptyPool(alxReserve) == alxReserve = 0

\* the reserve-ratio step, after the oracle step in oracle mode
BaseAmount(mode, v, rate, alxReserve, usdtReserve) ==
    IF mode = "oracle"
    THEN MulDiv(MulDiv(v, rate, RateScale), alxReserve, usdtReserve)
    ELSE MulDiv(v, alxReserve, usdtReserve)

\* sendAmount = (sendAmount * multiplier) / 10000n
ApplyOffset(amount, off) == MulDiv(amount, Multiplier(off), OffsetScale)

\* the conversion with the division guarded: a reference reserve of zero gives
\* an amount of zero instead of a fault
ConvertGuardedDivision(mode, body, reserves, token0, answer) ==
    LET rs == Classify(reserves, token0, ALX_CONTRACT_ADDRESS)
        v == parseEther(body.rwa_amount)
    IN  IF EmptyPool(rs[1]) THEN [fault |-> "Liquidity pool is empty", amount |-> 0]
        ELSE IF body.offset.kind # "num"
             THEN [fault |-> "The number NaN cannot be converted to a BigInt", amount |-> 0]
        ELSE IF rs[2] = 0 THEN [fault |-> "", amount |-> 0]
        ELSE [fault |-> "",
              amount |-> ApplyOffset(BaseAmount(mode, v, answer, rs[1], rs[2]), body.offset)]

\* the synchronous stretch between Promise.all and writeContract: the fault it
\* throws ("" for none) and the sendAmount it reaches
Convert(mode, body, reserves, token0, answer) ==
    LET rs == Classify(reserves, token0, ALX_CONTRACT_ADDRESS)
        v == parseEther(body.rwa_amount)
    IN  IF EmptyPool(rs[1]) THEN [fault |-> "Liquidity pool is empty", amount |-> 0]
        ELSE IF rs[2] = 0 THEN [fault |-> "Division by zero", amount |-> 0]
        ELSE IF body.offset.kind # "num"
             THEN [fault |-> "The number NaN cannot be converted to a BigInt", amount |-> 0]
        ELSE [fault |-> "",
              amount |-> ApplyOffset(BaseAmount(mode, v, answer, rs[1], rs[2]), body.offset)]

\* the parameter check without its offset clause
MissingParametersNoOffset(b) ==
    b.address = "" \/ b.rwa_amount = 0 \/ b.order = ""

\* the parameter check of POST /pay
MissingParameters(b) ==
    b.address = "" \/ b.rwa_amount = 0 \/ b.order = "" \/ b.offset.kind = "undefined"

\* the API key check that only looks for an absent header
UnauthorizedOnlyWhenAbsent(key) == key = ""

\* the API key check: if (!apiKey || apiKey !== env.API_KEY)
Unauthorized(key) == key = "" \/ key # API_KEY

\* the idempotency check comparing against undefined, which KV never returns
HitNever(existing) == FALSE

\* the idempotency check: if (existing)
Hit(existing) == existing # NoRecord

RateReads(mode) ==
    IF mode = "oracle" THEN {"getReserves", "token0", "latestRoundData"}
    ELSE {"getReserves", "token0"}

\* ------------------------------------------------------------------------
\* State

\* had and retryOf are history: the ledger entry of the request's order when it
\* arrived, and the faulted payments of the same order that were over by then
IdleReq == [pc |-> "idle", key |-> "", route |-> "", query |-> "", body |-> NoBody,
            had |-> NoRecord, retryOf |-> {}, pending |-> {}, got |-> {},
            reserves |-> <<0, 0>>, token0 |-> <<>>, answer |-> 0,
            alxReserve |-> 0, usdtReserve |-> 0, sendAmount |-> 0,
            result |-> NoRecord, resp |-> NoResp,
            nGet |-> 0, nPut |-> 0, nRead |-> 0, nSubmit |-> 0]

\* the number of requests the clients send, and the bodies they send: one client
\* that tries every body against every pool and oracle reading, one client that
\* tries every casing of the token addresses, or MaxReqs concurrent clients
\* paying the two orders from one liquid pool
Clients == IF env.workload = "traffic" THEN MaxReqs ELSE 1
Bodies ==
    IF env.workload = "single" THEN PricingBodies
    ELSE IF env.workload = "casing" THEN CasingBodies
    ELSE TrafficBodies

Init ==
    /\ env \in [mode : {"direct", "oracle"}, workload : {"single", "traffic", "casing"},
                 alx : AlxCasings]
    /\ env.workload # "casing" => env.alx = <<"0", "x", "A", "b">>
    /\ IF env.workload = "single"
       THEN pair \in [reserve0 : ReserveValues, reserve1 : ReserveValues, token0 : Token0Values]
       ELSE IF env.workload = "casing"
       THEN pair \in [reserve0 : ReserveValues, reserve1 : ReserveValues,
                      token0 : AlxCasings \cup OtherTokens]
       ELSE pair = [reserve0 |-> 2, reserve1 |-> 1, token0 |-> <<"0", "x", "a", "B">>]
    /\ IF env.mode = "direct" THEN feed = 0
       ELSE IF env.workload = "single" THEN feed \in AnswerValues
       ELSE feed = 14000000
    /\ ledger = [o \in Orders |-> NoRecord]
    /\ chain = <<>>
    /\ req = [r \in Reqs |-> IdleReq]

\* jsonResp(data, status): the request is over
Respond(rec, status, msg, data) ==
    [rec EXCEPT !.pc = "done", !.pending = {},
                !.resp = [status |-> status, msg |-> msg, data |-> data]]

\* the catch clause without its status argument: jsonResp defaults to 200
CatchDefaultStatus(rec, e) == Respond(rec, 200, e, NoRecord)

\* the catch clause of POST /pay: jsonResp({ error: e.message, stack: e.stack }, 500)
Catch(rec, e) == Respond(rec, 500, e, NoRecord)

LedgerAt(o) == IF o \in Orders THEN ledger[o] ELSE NoRecord

\* what a client can send: every kind of request from the single client, and
\* from the concurrent clients payments and status queries.  A
\* request with a bad key carries no query and no body here: the handler returns
\* before it looks at either.
Inbound ==
    IF env.workload = "single"
    THEN { [key |-> k, route |-> rt, query |-> "", body |-> NoBody] :
             k \in Keys \ {API_KEY}, rt \in Routes }
         \cup { [key |-> API_KEY, route |-> "GET /status", query |-> q, body |-> NoBody] :
             q \in Orders \cup {""} }
         \cup { [key |-> API_KEY, route |-> "POST /pay", query |-> "", body |-> b] :
             b \in Bodies }
         \cup { [key |-> API_KEY, route |-> "GET /", query |-> "", body |-> NoBody] }
    ELSE IF env.workload = "casing"
    THEN { [key |-> API_KEY, route |-> "POST /pay", query |-> "", body |-> b] :
             b \in Bodies }
    ELSE { [key |-> API_KEY, route |-> "GET /status", query |-> "o1", body |-> NoBody] }
         \cup { [key |-> API_KEY, route |-> "POST /pay", query |-> "", body |-> b] :
             b \in Bodies }

\* ------------------------------------------------------------------------
\* The handler, one action per stretch between awaits

\* the transactions the network accepted from request r
AcceptedTx(r) == {i \in DOMAIN chain : chain[i].by = r}

\* a request arrives: API key check, routing, and the first await
Receive(r) ==
    /\ req[r].pc = "idle"
    /\ r <= Clients
    /\ \A q \in Reqs : q < r => req[q].pc # "idle"
    /\ \E in \in Inbound :
         LET o == IF in.route = "POST /pay" THEN in.body.order ELSE in.query
             base == [req[r] EXCEPT !.key = in.key, !.route = in.route,
                                    !.query = in.query, !.body = in.body,
                                    !.had = LedgerAt(o),
                                    !.retryOf = {q \in Reqs : /\ req[q].pc = "done"
                                                            /\ req[q].resp.status = 500
                                                            /\ in.route = "POST /pay"
                                                            /\ req[q].body.order = o}]
         IN  req' = [req EXCEPT ![r] =
                 IF Unauthorized(in.key)
                 THEN Respond(base, 401, "Unauthorized: Invalid API Key", NoRecord)
                 ELSE IF in.route = "GET /status"
                 THEN IF in.query = ""
                      THEN Respond(base, 400, "Missing order", NoRecord)
                      ELSE [base EXCEPT !.pc = "status", !.nGet = @ + 1]
                 ELSE IF in.route = "POST /pay"
                 THEN [base EXCEPT !.pc = "body"]
                 ELSE Respond(base, 404, "Not found", NoRecord)]
    /\ UNCHANGED <<env, pair, feed, ledger, chain>>

\* GET /status answering jsonResp(record) whether or not a record was found
StatusReturnWithoutNotFound(r) ==
    /\ req[r].pc = "status"
    /\ req' = [req EXCEPT ![r] = Respond(@, 200, "record", ledger[req[r].query])]
    /\ UNCHANGED <<env, pair, feed, ledger, chain>>

\* GET /status: DB.get resolves
StatusReturn(r) ==
    /\ req[r].pc = "status"
    /\ LET record == ledger[req[r].query]
       IN  req' = [req EXCEPT ![r] =
               IF record # NoRecord
               THEN Respond(@, 200, "record", record)
               ELSE Respond(@, 404, "not_found", NoRecord)]
    /\ UNCHANGED <<env, pair, feed, ledger, chain>>

\* GET /status: DB.get rejects outside any try block; the runtime answers 500
StatusFail(r) ==
    /\ req[r].pc = "status"
    /\ req' = [req EXCEPT ![r] = Respond(@, 500, "uncaught", NoRecord)]
    /\ UNCHANGED <<env, pair, feed, ledger, chain>>

\* POST /pay: request.json() settles, then the parameter check and DB.get
ParseBody(r) ==
    /\ req[r].pc = "body"
    /\ req' = [req EXCEPT ![r] =
           IF ~ req[r].body.json
           THEN Catch(@, "Unexpected end of JSON input")
           ELSE IF MissingParameters(req[r].body)
           THEN Respond(@, 400, "Missing parameters", NoRecord)
           ELSE [@ EXCEPT !.pc = "lookup", !.nGet = @ + 1]]
    /\ UNCHANGED <<env, pair, feed, ledger, chain>>

\* POST /pay: DB.get resolves; a hit short-circuits, a miss issues the rate reads
LookupReturn(r) ==
    /\ req[r].pc = "lookup"
    /\ LET existing == ledger[req[r].body.order]
       IN  req' = [req EXCEPT ![r] =
               IF Hit(existing)
               THEN Respond(@, 200, "Duplicate request", existing)
               ELSE [@ EXCEPT !.pc = "reads", !.pending = RateReads(env.mode),
                              !.nRead = @ + Cardinality(RateReads(env.mode))]]
    /\ UNCHANGED <<env, pair, feed, ledger, chain>>

LookupFail(r) ==
    /\ req[r].pc = "lookup"
    /\ req' = [req EXCEPT ![r] = Catch(@, "KV GET failed")]
    /\ UNCHANGED <<env, pair, feed, ledger, chain>>

\* one of the reads of Promise.all resolves; after the last, the conversion
\* runs and writeContract is called
ReadReturn(r, c) ==
    /\ req[r].pc = "reads"
    /\ c \in req[r].pending
    /\ LET got == [req[r] EXCEPT
                     !.pending = @ \ {c},
                     !.got = @ \cup {c},
                     !.reserves = IF c = "getReserves"
                                  THEN <<pair.reserve0, pair.reserve1>> ELSE @,
                     !.token0 = IF c = "token0" THEN pair.token0 ELSE @,
                     !.answer = IF c = "latestRoundData" THEN feed ELSE @]
           rs == Classify(got.reserves, got.token0, ALX_CONTRACT_ADDRESS)
           conv == Convert(env.mode, got.body, got.reserves, got.token0, got.answer)
           all == [got EXCEPT !.alxReserve = rs[1], !.usdtReserve = rs[2]]
       IN  req' = [req EXCEPT ![r] =
               IF got.pending # {} THEN got
               ELSE IF conv.fault # "" THEN Catch(all, conv.fault)
               ELSE [all EXCEPT !.pc = "submit", !.sendAmount = conv.amount,
                                !.nSubmit = @ + 1]]
    /\ UNCHANGED <<env, pair, feed, ledger, chain>>

\* one of the reads rejects and is waited for like Promise.allSettled: the
\* handler goes on with what the other reads returned
ReadFailSettled(r, c) ==
    /\ req[r].pc = "reads"
    /\ c \in req[r].pending
    /\ LET got == [req[r] EXCEPT !.pending = @ \ {c}]
           conv == Convert(env.mode, got.body, got.reserves, got.token0, got.answer)
       IN  req' = [req EXCEPT ![r] =
               IF got.pending # {} THEN got
               ELSE IF conv.fault # "" THEN Catch(got, conv.fault)
               ELSE [got EXCEPT !.pc = "submit", !.sendAmount = conv.amount,
                                !.nSubmit = @ + 1]]
    /\ UNCHANGED <<env, pair, feed, ledger, chain>>

\* one of the reads rejects: Promise.all rejects at once
ReadFail(r, c) ==
    /\ req[r].pc = "reads"
    /\ c \in req[r].pending
    /\ req' = [req EXCEPT ![r] = Catch(@, "RPC read failed")]
    /\ UNCHANGED <<env, pair, feed, ledger, chain>>

\* writeContract resolves: the network accepted transfer(address, sendAmount);
\* resultData is built and DB.put is called.  A negative amount does not encode
\* as uint256, so it is never accepted.  Date.now() is read off a logical clock,
\* the number of submissions accepted so far.
SubmitAccept(r) ==
    /\ req[r].pc = "submit"
    /\ req[r].sendAmount >= 0
    /\ LET txHash == Len(chain) + 1
           resultData == [status |-> "success", tx_hash |-> txHash,
                          alx_sent |-> formatUnits(req[r].sendAmount),
                          rwa_value |-> req[r].body.rwa_amount,
                          timestamp |-> txHash]
       IN  /\ chain' = Append(chain, [tx |-> txHash, by |-> r, order |-> req[r].body.order,
                                      to |-> req[r].body.address,
                                      amount |-> req[r].sendAmount,
                                      receipt |-> "pending"])
           /\ req' = [req EXCEPT ![r] = [@ EXCEPT !.pc = "put", !.result = resultData,
                                                  !.nPut = @ + 1]]
    /\ UNCHANGED <<env, pair, feed, ledger>>

\* writeContract rejects and the catch clause stores the failure under the order
SubmitRejectRecorded(r) ==
    /\ req[r].pc = "submit"
    /\ ledger' = [ledger EXCEPT ![req[r].body.order] =
                      [status |-> "failed", tx_hash |-> 0,
                       alx_sent |-> formatUnits(0),
                       rwa_value |-> req[r].body.rwa_amount, timestamp |-> 0]]
    /\ req' = [req EXCEPT ![r] = Catch(@, "transfer rejected")]
    /\ UNCHANGED <<env, pair, feed, chain>>

\* writeContract rejects and the submission is tried once more
SubmitRejectRetried(r) ==
    /\ req[r].pc = "submit"
    /\ req' = [req EXCEPT ![r] =
           IF @.nSubmit < 2 THEN [@ EXCEPT !.nSubmit = @ + 1]
           ELSE Catch(@, "transfer rejected")]
    /\ UNCHANGED <<env, pair, feed, ledger, chain>>

\* writeContract rejects (encoding, balance, nonce, RPC)
SubmitReject(r) ==
    /\ req[r].pc = "submit"
    /\ req' = [req EXCEPT ![r] = Catch(@, "transfer rejected")]
    /\ UNCHANGED <<env, pair, feed, ledger, chain>>

\* DB.put as an insert-if-absent: an entry already stored is kept
PutReturnIfAbsent(r) ==
    /\ req[r].pc = "put"
    /\ ledger' = [ledger EXCEPT ![req[r].body.order] =
                      IF @ = NoRecord THEN req[r].result ELSE @]
    /\ req' = [req EXCEPT ![r] = Respond(@, 200, "fresh", req[r].result)]
    /\ UNCHANGED <<env, pair, feed, chain>>

\* the write and the response held back until the transaction's receipt is
\* known, the entry's status taken from the receipt
PutReturnAfterReceipt(r) ==
    /\ req[r].pc = "put"
    /\ \E i \in AcceptedTx(r) :
         /\ chain[i].receipt # "pending"
         /\ LET resultData == [req[r].result EXCEPT
                                 !.status = IF chain[i].receipt = "success"
                                            THEN "success" ELSE "failed"]
            IN  /\ ledger' = [ledger EXCEPT ![req[r].body.order] = resultData]
                /\ req' = [req EXCEPT ![r] = Respond(@, 200, "fresh", resultData)]
    /\ UNCHANGED <<env, pair, feed, chain>>

\* DB.put resolves: the unconditional write, then the 200 response
PutReturn(r) ==
    /\ req[r].pc = "put"
    /\ ledger' = [ledger EXCEPT ![req[r].body.order] = req[r].result]
    /\ req' = [req EXCEPT ![r] = Respond(@, 200, "fresh", req[r].result)]
    /\ UNCHANGED <<env, pair, feed, chain>>

\* DB.put rejects: nothing is stored
PutFail(r) ==
    /\ req[r].pc = "put"
    /\ req' = [req EXCEPT ![r] = Catch(@, "KV PUT failed")]
    /\ UNCHANGED <<env, pair, feed, ledger, chain>>

\* the network includes an accepted transaction in a block, where it succeeds
\* or reverts; the transactions of the one sending account are included in the
\* order of their nonces.  The handler never asks for the receipt.
Confirmed(i) ==
    /\ i \in DOMAIN chain
    /\ chain[i].receipt = "pending"
    /\ \A j \in 1..(i - 1) : chain[j].receipt # "pending"
    /\ chain' = [chain EXCEPT ![i].receipt = "success"]
    /\ UNCHANGED <<env, pair, feed, ledger, req>>

Reverted(i) ==
    /\ i \in DOMAIN chain
    /\ chain[i].receipt = "pending"
    /\ \A j \in 1..(i - 1) : chain[j].receipt # "pending"
    /\ chain' = [chain EXCEPT ![i].receipt = "reverted"]
    /\ UNCHANGED <<env, pair, feed, ledger, req>>

Next ==
    \/ \E i \in Reqs : Confirmed(i) \/ Reverted(i)
    \/ \E r \in Reqs :
        \/ Receive(r)
        \/ StatusReturn(r)
        \/ StatusFail(r)
        \/ ParseBody(r)
        \/ LookupReturn(r)
        \/ LookupFail(r)
        \/ \E c \in RateReads("oracle") : ReadReturn(r, c)
        \/ \E c \in RateReads("oracle") : ReadFail(r, c)
        \/ SubmitAccept(r)
        \/ SubmitReject(r)
        \/ PutReturn(r)
        \/ PutFail(r)

Spec == Init /\ [][Next]_vars

\* what the handler of request r does once the request has arrived: each of its
\* awaits settles, one way or the other
Settle(r) ==
    \/ StatusReturn(r) \/ StatusFail(r)
    \/ ParseBody(r)
    \/ LookupReturn(r) \/ LookupFail(r)
    \/ \E c \in RateReads("oracle") : ReadReturn(r, c) \/ ReadFail(r, c)
    \/ SubmitAccept(r) \/ SubmitReject(r)
    \/ PutReturn(r) \/ PutFail(r)

\* an external call that is outstanding eventually returns or fails; clients
\* need not send, and the network need not include a transaction
FairSpec == Spec /\ WF_vars(\E r \in Reqs : Settle(r))

\* ------------------------------------------------------------------------
\* Vocabulary of the properties

Done(r) == req[r].pc = "done"
IsPay(r) == req[r].route = "POST /pay" /\ req[r].key = API_KEY
AcceptedBy(r) == {i \in DOMAIN chain : chain[i].by = r}
AcceptedFor(o) == {i \in DOMAIN chain : chain[i].order = o}
NoEffects(r) ==
    req[r].nGet = 0 /\ req[r].nPut = 0 /\ req[r].nRead = 0 /\ req[r].nSubmit = 0
NoChainNoWrite(r) == req[r].nPut = 0 /\ req[r].nRead = 0 /\ req[r].nSubmit = 0
\* q recorded the outcome e for order o after its own transfer was accepted
RecordedBy(q, o, e) ==
    /\ req[q].body.order = o
    /\ req[q].result = e
    /\ \E i \in AcceptedBy(q) : chain[i].tx = e.tx_hash /\ chain[i].order = o

\* C1: over every interleaving of POST /pay requests, at most one transfer
\* submission is accepted for any order_id.
C1_AtMostOnceSettlement ==
    \A o \in Orders : Cardinality(AcceptedFor(o)) <= 1

\* C2 as stated: a POST /pay for an order_id that already has a ledger entry,
\* with any body, returns the stored outcome as a duplicate and issues no
\* transfer, no rate read and no ledger write.
C2_ReplayWithAnyBody ==
    \A r \in Reqs :
        (IsPay(r) /\ req[r].body.json /\ req[r].had # NoRecord /\ Done(r))
        => /\ req[r].resp.status = 200
           /\ req[r].resp.msg = "Duplicate request"
           /\ req[r].resp.data = req[r].had
           /\ NoChainNoWrite(r)

\* C2 amended: a POST /pay for an order_id that already has a ledger entry issues
\* no transfer, no rate read and no ledger write; when its body passes the
\* parameter check and its ledger lookup succeeds it returns, as a duplicate, an
\* outcome that was recorded for that order_id, and when its body fails the
\* parameter check it returns 400.
C2_Replay ==
    \A r \in Reqs :
        (IsPay(r) /\ req[r].body.json /\ req[r].had # NoRecord)
        => /\ NoChainNoWrite(r)
           /\ req[r].pc \in {"body", "lookup", "done"}
           /\ Done(r) =>
                IF MissingParameters(req[r].body)
                THEN req[r].resp.status = 400 /\ req[r].nGet = 0
                ELSE \/ /\ req[r].resp.status = 200
                        /\ req[r].resp.msg = "Duplicate request"
                        /\ \E q \in Reqs \ {r} :
                               RecordedBy(q, req[r].body.order, req[r].resp.data)
                     \/ /\ req[r].resp.status = 500
                        /\ req[r].resp.msg = "KV GET failed"

C2_Witness ==
    \E r \in Reqs :
        /\ IsPay(r) /\ Done(r) /\ req[r].had # NoRecord
        /\ req[r].resp.msg = "Duplicate request"
        /\ req[r].resp.data = ledger[req[r].body.order]

\* C3: once an outcome is stored under an order_id, no step changes the ledger
\* entry of that order_id.
C3_WriteOnceLedger ==
    [][\A o \in Orders : ledger[o] # NoRecord => ledger'[o] = ledger[o]]_vars

\* C4: a POST /pay that ended in a 500 fault wrote nothing to the ledger and had
\* no transfer accepted, so that a faulted request and a later retry of the same
\* body have at most one accepted transfer between them.
C4_FaultedRequestIsHarmless ==
    \A r \in Reqs :
        (IsPay(r) /\ Done(r) /\ req[r].resp.status = 500)
        => /\ AcceptedBy(r) = {}
           /\ \A o \in Orders : ~ RecordedBy(r, o, ledger[o])
           /\ \A q \in Reqs :
                  (r \in req[q].retryOf /\ IsPay(q) /\ req[q].body = req[r].body)
                  => Cardinality(AcceptedBy(r) \cup AcceptedBy(q)) <= 1

\* the step in which the transfer submission of r is rejected
RejectStep(r) ==
    /\ req[r].pc = "submit"
    /\ req'[r].pc = "done"
\* r is over and its transfer submission was rejected
Rejected(r) ==
    Done(r) /\ req[r].nSubmit = 1 /\ req[r].nPut = 0
\* the step in which the ledger lookup of q returns, q being a request for the
\* order of r that arrived after r was over
RetryLookupStep(r, q) ==
    /\ Rejected(r) /\ r \in req[q].retryOf
    /\ req[q].body.order = req[r].body.order
    /\ req[q].pc = "lookup"
    /\ req'[q].pc # "lookup"
    /\ req'[q].resp.msg # "KV GET failed"

\* C5 as stated: when the transfer submission is rejected the request ends in
\* 500, the ledger has no entry for that order_id, and a later POST /pay with
\* the same order_id passes the lookup and goes on to submit a transfer.
C5_RejectedLeavesNoEntry ==
    [][\A r \in Reqs :
          /\ RejectStep(r) =>
                /\ req'[r].resp.status = 500
                /\ ledger'[req[r].body.order] = NoRecord
          /\ \A q \in Reqs :
                RetryLookupStep(r, q) => req'[q].pc = "reads"]_vars

\* C5 amended: when the transfer submission is rejected the request ends in 500
\* without a ledger write and without an accepted transfer, so the ledger has no
\* entry for that order_id unless another request recorded its own accepted
\* transfer; a later POST /pay with the same order_id whose lookup finds no
\* entry passes the lookup and issues the rate reads toward a new submission.
C5_RejectedLeavesOrderUnsettled ==
    [][\A r \in Reqs :
          /\ RejectStep(r) =>
                /\ req'[r].resp.status = 500
                /\ ledger' = ledger /\ chain' = chain
                /\ req'[r].nPut = 0
                /\ AcceptedBy(r) = {}
                /\ LET o == req[r].body.order
                   IN  ledger'[o] # NoRecord =>
                           \E q \in Reqs \ {r} : RecordedBy(q, o, ledger'[o])
          /\ \A q \in Reqs :
                (RetryLookupStep(r, q) /\ ledger[req[q].body.order] = NoRecord)
                => /\ req'[q].pc = "reads"
                   /\ req'[q].nRead = Cardinality(RateReads(env.mode))
                   /\ req'[q].nSubmit = 0]_vars

C5_Witness ==
    \E r, q \in Reqs :
        /\ Rejected(r) /\ req[r].resp.status = 500
        /\ r \in req[q].retryOf
        /\ req[q].body.order = req[r].body.order
        /\ ledger[req[r].body.order] = NoRecord
        /\ req[q].pc = "submit"

\* the reserves a request resolved from what it read, stated on their own
SettlementOf(r) ==
    IF toLowerCase(req[r].token0) = toLowerCase(ALX_CONTRACT_ADDRESS)
    THEN req[r].reserves[1] ELSE req[r].reserves[2]
ReferenceOf(r) ==
    IF toLowerCase(req[r].token0) = toLowerCase(ALX_CONTRACT_ADDRESS)
    THEN req[r].reserves[2] ELSE req[r].reserves[1]
AllRead(r) == IsPay(r) /\ req[r].got = RateReads(env.mode)

\* C6: whenever the resolved settlement-token reserve is zero, for any reference
\* reserve, the request ends in the 500 fault "Liquidity pool is empty" with no
\* transfer submitted and no ledger write by that request.
C6_EmptyPoolFault ==
    \A r \in Reqs :
        (AllRead(r) /\ SettlementOf(r) = 0)
        => /\ Done(r)
           /\ req[r].resp.status = 500
           /\ req[r].resp.msg = "Liquidity pool is empty"
           /\ req[r].nSubmit = 0 /\ req[r].nPut = 0
           /\ AcceptedBy(r) = {}

C6_Witness ==
    \E r \in Reqs :
        /\ AllRead(r) /\ Done(r)
        /\ SettlementOf(r) = 0 /\ ReferenceOf(r) > 0
        /\ req[r].resp.msg = "Liquidity pool is empty"

\* an offset below -100% or not a number
InvalidOffset(off) == off.kind = "nan" \/ (off.kind = "num" /\ off.centi < -10000)

\* C7: a POST /pay whose offset is below -100% or is not a number is rejected
\* with 400 before the conversion, with no rate read, no transfer submission and
\* no ledger write.
C7_InvalidOffsetRejected ==
    \A r \in Reqs :
        (IsPay(r) /\ req[r].body.json /\ InvalidOffset(req[r].body.offset)
            /\ req[r].pc \notin {"idle", "body"})
        => /\ Done(r)
           /\ req[r].resp.status = 400
           /\ NoChainNoWrite(r)

\* C8: a request whose X-API-KEY is absent or differs from the secret receives
\* 401 and performs no ledger read, no ledger write and no chain call.
C8_UnauthenticatedNoEffect ==
    \A r \in Reqs :
        (req[r].pc # "idle" /\ req[r].key # "secret")
        => /\ Done(r)
           /\ req[r].resp.status = 401
           /\ NoEffects(r)
           /\ AcceptedBy(r) = {}

C8_Witness ==
    \E r \in Reqs :
        /\ Done(r) /\ req[r].key = "wrong" /\ req[r].route = "POST /pay"
        /\ req[r].resp.status = 401

\* C9: an authenticated POST /pay whose body lacks any of address, rwa_amount,
\* offset or order receives 400 and performs no ledger read, no ledger write and
\* no chain call.
C9_MissingFieldRejected ==
    \A r \in Reqs :
        (IsPay(r) /\ req[r].body.json /\ req[r].pc \notin {"idle", "body"}
            /\ (\/ req[r].body.address = ""
                \/ req[r].body.rwa_amount = 0
                \/ req[r].body.offset = OffsetUndefined
                \/ req[r].body.order = ""))
        => /\ Done(r)
           /\ req[r].resp.status = 400
           /\ NoEffects(r)
           /\ AcceptedBy(r) = {}

C9_Witness ==
    \E r \in Reqs :
        /\ IsPay(r) /\ Done(r)
        /\ req[r].body.offset = OffsetUndefined
        /\ req[r].body.address # "" /\ req[r].body.rwa_amount # 0 /\ req[r].body.order # ""
        /\ req[r].resp.status = 400

\* floor(floor(v * S / R) * m / 10000), each product taken before its division
FlooredAmount(v, S, R, m) == (((v * S) \div R) * m) \div OffsetScale

\* a direct-mode request that passed sendAmount to the transfer
DirectSubmitted(r) == env.mode = "direct" /\ IsPay(r) /\ req[r].nSubmit = 1

C10_DirectConversionFromMinus100 ==
    \A r \in Reqs :
        (DirectSubmitted(r) /\ req[r].body.offset.centi >= -10000)
        => /\ SettlementOf(r) > 0 /\ ReferenceOf(r) > 0
           /\ req[r].sendAmount =
               FlooredAmount(req[r].body.rwa_amount * EtherUnit, SettlementOf(r),
                             ReferenceOf(r), Multiplier(req[r].body.offset))

\* C10's examples: S = 2R and v = 100 tokens give 200 tokens at offset 0 and
\* 220 tokens at offset +10.00
C10_Example200 ==
    \E r \in Reqs :
        /\ DirectSubmitted(r) /\ SettlementOf(r) = 2 * ReferenceOf(r)
        /\ req[r].body.rwa_amount = 100 /\ req[r].body.offset = OffsetNum(0)
        /\ req[r].sendAmount = 200 * EtherUnit
C10_Example220 ==
    \E r \in Reqs :
        /\ DirectSubmitted(r) /\ SettlementOf(r) = 2 * ReferenceOf(r)
        /\ req[r].body.rwa_amount = 100 /\ req[r].body.offset = OffsetNum(1000)
        /\ req[r].sendAmount = 220 * EtherUnit

\* floor(a * b / d) for d > 0, the product exact
FloorMulDiv(a, b, d) ==
    LET qr == MulDivMod(Abs(a), Abs(b), d)
    IN  IF (a < 0) # (b < 0)
        THEN (IF qr[2] = 0 THEN -qr[1] ELSE -qr[1] - 1)
        ELSE qr[1]

\* an oracle-mode request that passed sendAmount to the transfer
OracleSubmitted(r) == env.mode = "oracle" /\ IsPay(r) /\ req[r].nSubmit = 1

C11_OracleConversionOfValidInputs ==
    \A r \in Reqs :
        (OracleSubmitted(r) /\ req[r].answer >= 0 /\ req[r].body.offset.centi >= -10000)
        => /\ SettlementOf(r) > 0 /\ ReferenceOf(r) > 0
           /\ req[r].sendAmount =
               FlooredAmount(FloorMulDiv(req[r].body.rwa_amount * EtherUnit,
                                         req[r].answer, RateScale),
                             SettlementOf(r), ReferenceOf(r),
                             Multiplier(req[r].body.offset))

\* C11's example: r = 14000000, v = 700 tokens, S = 2R and offset 0 give 196 tokens
C11_Example196 ==
    \E r \in Reqs :
        /\ OracleSubmitted(r) /\ SettlementOf(r) = 2 * ReferenceOf(r)
        /\ req[r].answer = 14000000
        /\ req[r].body.rwa_amount = 700 /\ req[r].body.offset = OffsetNum(0)
        /\ req[r].sendAmount = 196 * EtherUnit

\* C12: in oracle mode, when the oracle answer is zero or negative, the request
\* ends in a 500 fault with no transfer submitted and no ledger entry written.
C12_MalformedOracleFaults ==
    \A r \in Reqs :
        (env.mode = "oracle" /\ AllRead(r) /\ req[r].answer <= 0)
        => /\ Done(r)
           /\ req[r].resp.status = 500
           /\ req[r].nSubmit = 0 /\ req[r].nPut = 0
           /\ AcceptedBy(r) = {}

\* what the code does with an oracle answer of zero: a transfer of zero tokens
\* is accepted, recorded as a success and answered with 200
C12_ZeroAnswerSettled ==
    \E r \in Reqs :
        /\ env.mode = "oracle" /\ AllRead(r) /\ req[r].answer = 0 /\ Done(r)
        /\ req[r].resp.status = 200
        /\ req[r].sendAmount = 0
        /\ AcceptedBy(r) # {}
        /\ ledger[req[r].body.order] = req[r].result

\* the two casings of each letter that occurs in an address
CasePairs == {{"a", "A"}, {"b", "B"}, {"c", "C"}, {"d", "D"}, {"e", "E"}, {"f", "F"},
              {"x", "X"}}

\* s and t are the same address up to the casing of their letters
SameIgnoringCase(s, t) ==
    /\ Len(s) = Len(t)
    /\ \A i \in 1..Len(s) : s[i] = t[i] \/ {s[i], t[i]} \in CasePairs

\* C13: for every pair (reserve0, reserve1) and every casing of token0 and of the
\* configured settlement-token address, the resolved (settlement, reference)
\* reserves are (reserve0, reserve1) when token0 equals the configured address
\* ignoring case, and (reserve1, reserve0) otherwise.
C13_ReserveResolution ==
    \A r \in Reqs :
        AllRead(r)
        => <<req[r].alxReserve, req[r].usdtReserve>> =
               IF SameIgnoringCase(req[r].token0, env.alx)
               THEN <<req[r].reserves[1], req[r].reserves[2]>>
               ELSE <<req[r].reserves[2], req[r].reserves[1]>>

\* token0 and the configured address differ in the casing of every letter, and
\* the reserves resolve unswapped
C13_Witness ==
    \E r \in Reqs :
        /\ AllRead(r)
        /\ env.alx = <<"0", "x", "A", "b">> /\ req[r].token0 = <<"0", "x", "a", "B">>
        /\ req[r].reserves = <<3, 1>>
        /\ req[r].alxReserve = 3 /\ req[r].usdtReserve = 1

\* a token0 that differs from the configured address in one digit resolves swapped
C13_WitnessSwapped ==
    \E r \in Reqs :
        /\ AllRead(r)
        /\ env.alx = <<"0", "x", "a", "b">> /\ req[r].token0 = <<"0", "x", "a", "C">>
        /\ req[r].reserves = <<3, 1>>
        /\ req[r].alxReserve = 1 /\ req[r].usdtReserve = 3

\* the step in which an authenticated GET /status is answered
StatusAnswerStep(r) ==
    /\ req[r].pc # "done" /\ req'[r].pc = "done"
    /\ req'[r].route = "GET /status" /\ req'[r].key = API_KEY

\* a fresh POST /pay for order o returned the outcome e
FreshReturned(o, e) ==
    \E q \in Reqs :
        /\ IsPay(q) /\ Done(q) /\ req[q].body.order = o
        /\ req[q].resp.status = 200 /\ req[q].resp.msg = "fresh"
        /\ req[q].resp.data = e

\* the step wrote no ledger entry, and the request has issued no chain call
ReadOnlyStep(r) ==
    /\ ledger' = ledger /\ chain' = chain
    /\ req'[r].nPut = 0 /\ req'[r].nRead = 0 /\ req'[r].nSubmit = 0

\* C14 as stated: an authenticated GET /status for order X returns 200 with
\* exactly the ledger's current entry for X when one exists, which a fresh
\* POST /pay for X returned, 404 not_found when none exists and 400 when the order
\* parameter is missing; it writes no ledger entry and issues no chain call.
C14_StatusAlwaysAnswersFromLedger ==
    [][\A r \in Reqs :
          StatusAnswerStep(r)
          => LET x == req'[r].query
                 resp == req'[r].resp
             IN  /\ ReadOnlyStep(r)
                 /\ x = "" => resp.status = 400
                 /\ (x # "" /\ ledger[x] # NoRecord)
                        => /\ resp.status = 200 /\ resp.data = ledger[x]
                           /\ FreshReturned(x, resp.data)
                 /\ (x # "" /\ ledger[x] = NoRecord)
                        => resp.status = 404 /\ resp.msg = "not_found"]_vars

\* C14 amended: the same, provided the ledger read of the query succeeds; when
\* it fails the request is answered 500, still without a ledger write or a chain
\* call.
C14_StatusAnswersFromLedger ==
    [][\A r \in Reqs :
          StatusAnswerStep(r)
          => LET x == req'[r].query
                 resp == req'[r].resp
             IN  /\ ReadOnlyStep(r)
                 /\ x = "" => resp.status = 400 /\ req'[r].nGet = 0
                 /\ x # ""
                        => \/ /\ resp.status = 500 /\ resp.msg = "uncaught"
                           \/ /\ ledger[x] # NoRecord
                              /\ resp.status = 200 /\ resp.data = ledger[x]
                              /\ FreshReturned(x, resp.data)
                           \/ /\ ledger[x] = NoRecord
                              /\ resp.status = 404 /\ resp.msg = "not_found"]_vars

\* a status query answered with the entry a payment of the same order stored
C14_Witness ==
    \E r \in Reqs :
        /\ Done(r) /\ req[r].route = "GET /status" /\ req[r].key = API_KEY
        /\ req[r].resp.status = 200
        /\ req[r].resp.data # NoRecord
        /\ req[r].resp.data = ledger[req[r].query]
        /\ FreshReturned(req[r].query, req[r].resp.data)

\* the entry e of order o carries the handle and the token quantity of the
\* accepted transfer i and the value requested by the request that submitted it
EntryOfTransfer(o, e, i) ==
    /\ chain[i].order = o
    /\ req[chain[i].by].body.order = o
    /\ e.tx_hash = chain[i].tx
    /\ e.alx_sent = <<chain[i].amount \div EtherUnit, chain[i].amount % EtherUnit>>
    /\ e.rwa_value = req[chain[i].by].body.rwa_amount

\* C15: every ledger entry is written after a transfer for the same order_id was
\* accepted, and carries the tx handle and token quantity of that transfer and
\* the value its request asked for; no order without an accepted transfer has a
\* ledger entry.
C15_RecordOnlyAfterSubmission ==
    [][\A o \in Orders :
          ledger'[o] # ledger[o]
          => /\ ledger'[o] # NoRecord
             /\ \E i \in DOMAIN chain : EntryOfTransfer(o, ledger'[o], i)]_vars

\* an entry for a transfer of a positive quantity
C15_Witness ==
    \E o \in Orders : \E i \in DOMAIN chain :
        /\ ledger[o] # NoRecord
        /\ EntryOfTransfer(o, ledger[o], i)
        /\ chain[i].amount > 0

\* the handles stored in the ledger
LedgerHandles == {ledger[o].tx_hash : o \in {x \in Orders : ledger[x] # NoRecord}}

\* r and q raced on one new order: each found no entry at its lookup and each
\* had its transfer accepted
Raced(r, q) ==
    /\ r # q /\ IsPay(r) /\ IsPay(q)
    /\ req[r].body.order = req[q].body.order
    /\ req[r].had = NoRecord /\ req[q].had = NoRecord
    /\ \E i \in AcceptedBy(r) : \E j \in AcceptedBy(q) : i # j

\* C16: when two concurrent POST /pay requests for one new order_id both find
\* the lookup absent and both have their transfer accepted, each ledger write
\* replaces what is stored: once both have written, the ledger holds the outcome
\* of the last writer and the other accepted transfer's handle is in no entry.
C16_LastWriterWins ==
    [][\A r \in Reqs : \A q \in Reqs :
          (Raced(r, q) /\ Done(q) /\ req[q].resp.msg = "fresh"
              /\ req[r].pc = "put" /\ req'[r].pc = "done" /\ req'[r].resp.status = 200)
          => /\ ledger[req[r].body.order] # req[r].result
             /\ ledger'[req[r].body.order] = req[r].result
             /\ req[q].result.tx_hash \notin LedgerHandles']_vars

\* the race has run to its end: both requests were answered as fresh payments,
\* two transfers were accepted, and one of the handles is recorded nowhere
C16_Witness ==
    \E r \in Reqs : \E q \in Reqs :
        /\ Raced(r, q) /\ Done(r) /\ Done(q)
        /\ req[r].resp.msg = "fresh" /\ req[q].resp.msg = "fresh"
        /\ ledger[req[r].body.order] = req[r].result
        /\ req[q].result.tx_hash \notin LedgerHandles
        /\ \E j \in AcceptedBy(q) : chain[j].tx = req[q].result.tx_hash

\* C17: the rate reads of a payment are issued together, with no ordering among
\* them, and complete in any order; the transfer is submitted only after all of them completed successfully; if any read fails
\* the request ends in a 500 with no transfer and no ledger write.
C17_FanOutFanIn ==
    \A r \in Reqs :
        IsPay(r)
        => /\ req[r].pc = "reads"
                => /\ req[r].nRead = Cardinality(RateReads(env.mode))
                   /\ req[r].pending \cup req[r].got = RateReads(env.mode)
                   /\ req[r].pending # {}
                   /\ req[r].nSubmit = 0 /\ AcceptedBy(r) = {}
           /\ (req[r].nSubmit > 0 \/ req[r].nPut > 0 \/ AcceptedBy(r) # {})
                => req[r].got = RateReads(env.mode)
           /\ (Done(r) /\ req[r].nRead > 0 /\ req[r].got # RateReads(env.mode))
                => /\ req[r].resp.status = 500
                   /\ req[r].nSubmit = 0 /\ req[r].nPut = 0
                   /\ AcceptedBy(r) = {}

\* in oracle mode one payment submitted its transfer after its three reads, the
\* oracle's among them, and another ended in a 500 on a failed read after the
\* oracle's read had completed before the pool's
C17_Witness ==
    \E r \in Reqs : \E q \in Reqs :
        /\ env.mode = "oracle" /\ IsPay(r) /\ IsPay(q)
        /\ req[r].nSubmit = 1 /\ req[r].got = RateReads("oracle")
        /\ Done(q) /\ req[q].resp.msg = "RPC read failed"
        /\ req[q].got = {"latestRoundData"}
        /\ req[q].nSubmit = 0

\* the step in which a POST /pay is answered
PayAnswerStep(r) ==
    /\ req[r].pc # "done" /\ req'[r].pc = "done"
    /\ req'[r].route = "POST /pay" /\ req'[r].key = API_KEY /\ req'[r].body.json

\* a fresh payment is answered: its entry is stored with status success and the
\* response is 200, whatever the state of the transaction's receipt
FreshAnswer(r) ==
    (PayAnswerStep(r) /\ req[r].pc = "put" /\ req'[r].resp.status = 200)
    => /\ req'[r].resp.data.status = "success"
       /\ ledger'[req[r].body.order] = req'[r].resp.data
       /\ \E i \in AcceptedBy(r) : chain[i].tx = req'[r].resp.data.tx_hash

\* a step in which a receipt becomes known leaves the ledger and every request
\* as they were
ReceiptIgnored ==
    (\E i \in DOMAIN chain : chain'[i].receipt # chain[i].receipt)
    => ledger' = ledger /\ req' = req

C19_ZeroReferenceReserveFault ==
    \A r \in Reqs :
        (AllRead(r) /\ SettlementOf(r) > 0 /\ ReferenceOf(r) = 0)
        => /\ Done(r)
           /\ req[r].resp.status = 500
           /\ req[r].resp.msg = "Division by zero"
           /\ req[r].nSubmit = 0 /\ req[r].nPut = 0
           /\ AcceptedBy(r) = {}
           /\ ledger[req[r].body.order] = NoRecord

C19_Witness ==
    \E r \in Reqs :
        /\ AllRead(r) /\ Done(r)
        /\ req[r].alxReserve = 2 /\ req[r].usdtReserve = 0
        /\ req[r].body.offset.kind = "num"
        /\ req[r].resp.status = 500 /\ req[r].resp.msg = "Division by zero"

\* the statuses the handler and the runtime answer with
Statuses == {200, 400, 401, 404, 500}

\* C20: provided each external call eventually returns or fails, every request
\* that arrived is eventually answered, with one response of status 200, 400,
\* 401, 404 or 500 that is never replaced; it issues at most one transfer
\* submission, one ledger write and one round of each read, and takes no step
\* after its response, so no failed step is run again.
C20_EveryRequestAnswered ==
    /\ \A r \in Reqs : (req[r].pc # "idle") ~> Done(r)
    /\ [](\A r \in Reqs :
            /\ req[r].nSubmit <= 1 /\ req[r].nPut <= 1 /\ req[r].nGet <= 1
            /\ req[r].nRead <= Cardinality(RateReads(env.mode))
            /\ Cardinality(AcceptedBy(r)) <= 1
            /\ Done(r) <=> req[r].resp # NoResp
            /\ Done(r) => req[r].resp.status \in Statuses)
    /\ [][\A r \in Reqs : Done(r) => req'[r] = req[r]]_vars

\* every request of a run was answered, among them a payment whose transfer was
\* rejected and a later payment of the same order that was answered 200
C20_Witness ==
    /\ \A r \in Reqs : Done(r)
    /\ \E r \in Reqs : \E q \in Reqs :
        /\ IsPay(r) /\ req[r].resp.status = 500 /\ req[r].nSubmit = 1
        /\ AcceptedBy(r) = {}
        /\ IsPay(q) /\ req[q].resp.status = 200 /\ req[q].nSubmit = 1 /\ req[q].nPut = 1

\* how far the handler of a request has come: the await it is at, and within
\* Promise.all the number of reads that completed
Progress(rec) ==
    (CASE rec.pc = "idle" -> 0
       [] rec.pc \in {"body", "status"} -> 1
       [] rec.pc = "lookup" -> 2
       [] rec.pc = "reads" -> 3
       [] rec.pc = "submit" -> 4
       [] rec.pc = "put" -> 5
       [] rec.pc = "done" -> 6) * 4 + Cardinality(rec.got)

\* C20 without fairness: a request that arrived and is not answered always has
\* an await that can settle
C20_NeverStuck ==
    \A r \in Reqs : req[r].pc \notin {"idle", "done"} => ENABLED Settle(r)

\* C20 without fairness: every step of a request moves it forward, so that no
\* request takes more than a bounded number of steps
C20_AlwaysForward ==
    [][\A r \in Reqs :
          req'[r] # req[r]
          => /\ Progress(req'[r]) > Progress(req[r])
             /\ Progress(req'[r]) <= 6 * 4 + 3]_vars

====
